---- MODULE Spec2Model ----
(***************************************************************************)
(* A model of two QUARK modules:                                           *)
(*   - modules/applications/QML/transformations/Transformation.py          *)
(*     (postprocess, reverse_transform, the two compute_discretization     *)
(*      and the two generate_samples routines),                            *)
(*   - modules/applications/optimization/ACL/mappings/ISING.py             *)
(*     (map_pulp_to_qiskit, map, reverse_map, _convert_ising_to_qubo).     *)
(*                                                                         *)
(* Floating point numbers are modelled as dyadic rationals <<num, exp>>    *)
(* standing for num / 2^exp, kept in lowest terms.  Every float the        *)
(* modelled code computes is such a number (the divisor n is a power of    *)
(* two), and float64 arithmetic on them is exact within the bounds used    *)
(* here; the cast to float32 is modelled with its 24 bit significand.      *)
(***************************************************************************)
EXTENDS Integers, Sequences, FiniteSets, TLC

VARIABLES
    \* ---- Transformation: discretization and sample generation
    n_qubits,        \* argument of compute_discretization
    n_registers,     \* argument of compute_discretization and generate_samples
    disc,            \* value returned by compute_discretization
    disc_eff,        \* value returned by compute_discretization_efficient
    bin_data,        \* argument of generate_samples
    results,         \* argument of generate_samples: the histogram
    samples,         \* value returned by generate_samples(noisy=False)
    samples_eff,     \* value returned by generate_samples_efficient(noisy=False)
    \* ---- Transformation: postprocess / reverse_transform
    heap,            \* the dict objects: reference -> dict (key -> value)
    subclass,        \* the Transformation subclass self is an instance of
    rt_ret,          \* value returned by a direct call of self.reverse_transform
    post_ret,        \* value returned (or exception raised) by self.postprocess
    post_d,          \* history: what reverse_transform returned inside postprocess
    heap_before,     \* history: the heap when postprocess was entered
    \* ---- Ising.map_pulp_to_qiskit
    problem,         \* the problem dict (as exported by pulp)
    qp,              \* the QuadraticProgram returned by map_pulp_to_qiskit
    \* ---- Ising.map / Ising.reverse_map
    global_variables,\* self.global_variables
    pc,              \* "idle", or "loop" inside the for loop of map
    t_matrix,        \* local of map
    j_matrix,        \* local of map
    n_terms,         \* number of terms of qubitOp the loop of map has taken
    addressed,       \* history: entry -> coefficient of the last term that addressed it
    solution,        \* argument of reverse_map
    converted,       \* history: reverse_map called _convert_ising_to_qubo
    ret              \* value returned by the last call of map or reverse_map

qmlVars == <<n_qubits, n_registers, disc, disc_eff, bin_data, results, samples, samples_eff>>

postVars == <<heap, subclass, rt_ret, post_ret, post_d, heap_before>>

pulpVars == <<problem, qp>>

isingVars == <<global_variables, pc, t_matrix, j_matrix, n_terms, addressed, solution,
               converted, ret>>

vars == <<qmlVars, postVars, pulpVars, isingVars>>

\* ------------------------------------------------------------------ bounds
MaxQubits == 3
MaxRegisters == 2
MaxShots == 2
MaxConstraints == 2
MaxIsingQubits == 3
MaxTerms == 3

\* ------------------------------------------------------- dyadic rationals
RECURSIVE Pow(_, _)
Pow(b, e) == IF e = 0 THEN 1 ELSE b * Pow(b, e - 1)

RECURSIVE Norm(_, _)
Norm(num, exp) ==
    IF exp > 0 /\ num % 2 = 0 THEN Norm(num \div 2, exp - 1) ELSE <<num, exp>>

RECURSIVE Log2(_)
Log2(n) == IF n <= 1 THEN 0 ELSE 1 + Log2(n \div 2)

Float(k) == <<k, 0>>

Half == <<1, 1>>

FAdd(a, b) ==
    LET e == IF a[2] >= b[2] THEN a[2] ELSE b[2]
    IN  Norm(a[1] * Pow(2, e - a[2]) + b[1] * Pow(2, e - b[2]), e)

\* a / n for n a power of two
FDiv(a, n) == Norm(a[1], a[2] + Log2(n))

\* number of bits of the float32 significand (np.float32)
F32Significand == 24

RECURSIVE DropBits(_)
DropBits(num) == IF num < Pow(2, F32Significand) THEN 0 ELSE 1 + DropBits(num \div 2)

\* astype(np.float32): round to nearest, ties to even
AsFloat32(a) ==
    LET s    == DropBits(a[1])
        unit == Pow(2, s)
        q    == a[1] \div unit
        rem  == a[1] % unit
        up   == s > 0 /\ (2 * rem > unit \/ (2 * rem = unit /\ q % 2 = 1))
        q2   == IF up THEN q + 1 ELSE q
    IN  IF s = 0 THEN a
        ELSE IF s >= a[2] THEN Norm(q2 * Pow(2, s - a[2]), 0)
        ELSE Norm(q2, a[2] - s)

\* ------------------------------------------- Transformation: discretization
\* one factor of itertools.product: [x + [y] for x in result for y in range(n)]
ProductStep(result, n) ==
    [i \in 1..(Len(result) * n) |-> Append(result[((i - 1) \div n) + 1], (i - 1) % n)]

RECURSIVE Product(_, _)
Product(n, repeat) ==
    IF repeat = 0 THEN << <<>> >> ELSE ProductStep(Product(n, repeat - 1), n)

\* variant of compute_discretization that leaves out the offset 0.5 / n
compute_discretization_no_offset(nq, nr) ==
    LET n      == Pow(2, nq \div nr)
        n_bins == Pow(n, nr)
        coords == Product(n, nr)
    IN  [k \in 1..n_bins |->
            <<Float(k - 1)>> \o [j \in 1..nr |-> FDiv(Float(coords[k][j]), n)]]

\* Transformation.compute_discretization(n_qubits, n_registered)
compute_discretization(nq, nr) ==
    LET n      == Pow(2, nq \div nr)
        n_bins == Pow(n, nr)
        coords == Product(n, nr)
    IN  [k \in 1..n_bins |->
            <<Float(k - 1)>> \o
            [j \in 1..nr |-> FAdd(FDiv(Float(coords[k][j]), n), FDiv(Half, n))]]

\* variant of compute_discretization_efficient that computes coords / n + 0.5
compute_discretization_efficient_late_divide(nq, nr) ==
    LET n      == Pow(2, nq \div nr)
        n_bins == Pow(n, nr)
        coords == Product(n, nr)
        normalized_coords ==
            [k \in 1..Len(coords) |->
                [j \in 1..nr |-> FAdd(FDiv(Float(coords[k][j]), n), Half)]]
    IN  [k \in 1..n_bins |-> <<Float(k - 1)>> \o normalized_coords[k]]

\* Transformation.compute_discretization_efficient(n_qubits, n_registers)
compute_discretization_efficient(nq, nr) ==
    LET n      == Pow(2, nq \div nr)
        n_bins == Pow(n, nr)
        coords == Product(n, nr)
        normalized_coords ==
            [k \in 1..Len(coords) |->
                [j \in 1..nr |-> FDiv(FAdd(Float(coords[k][j]), Half), n)]]
    IN  [k \in 1..n_bins |-> <<Float(k - 1)>> \o normalized_coords[k]]

\* ------------------------------------------ Transformation: sample generation
None == [tag |-> "none"]

NdArray(a) == [tag |-> "ndarray", val |-> a]

Raise(e) == [tag |-> "raise", exc |-> e]

RECURSIVE SumSeq(_)
SumSeq(s) == IF Len(s) = 0 THEN 0 ELSE Head(s) + SumSeq(Tail(s))

\* bin_data[idx, 1:]
Centre(row) == SubSeq(row, 2, Len(row))

RowAdd(a, b) == [j \in 1..Len(a) |-> FAdd(a[j], b[j])]

Zeros(rows, cols) == [p \in 1..rows |-> [j \in 1..cols |-> Float(0)]]

AsTypeFloat32(points) ==
    [p \in 1..Len(points) |-> [j \in 1..Len(points[p]) |-> AsFloat32(points[p][j])]]

\* the loop of generate_samples, from bin idx on (idx is 1-based here)
RECURSIVE SamplesLoop(_, _, _, _, _)
SamplesLoop(res, bins, idx, position, points) ==
    IF idx > Len(res) THEN points
    ELSE LET value      == res[idx]
             bin_coords == Centre(bins[idx])
         IN  SamplesLoop(res, bins, idx + 1, position + value,
                 [p \in 1..Len(points) |->
                     IF position < p /\ p <= position + value
                     THEN RowAdd(points[p], bin_coords)
                     ELSE points[p]])

\* generate_samples(results, bin_data, n_registers, noisy=False)
generate_samples(res, bins, nr) ==
    LET n_shots == SumSeq(res)
    IN  IF Len(bins) = 0 THEN Raise("ZeroDivisionError")   \* width = 1 / 0 ** (1 / nr)
        ELSE NdArray(AsTypeFloat32(SamplesLoop(res, bins, 1, 0, Zeros(n_shots, nr))))

\* np.repeat(rows, counts, axis=0)
RECURSIVE Repeat(_, _, _)
Repeat(rows, counts, i) ==
    IF i > Len(rows) THEN <<>>
    ELSE [c \in 1..counts[i] |-> rows[i]] \o Repeat(rows, counts, i + 1)

RECURSIVE Ravel(_)
Ravel(rows) == IF Len(rows) = 0 THEN <<>> ELSE Head(rows) \o Ravel(Tail(rows))

\* a.reshape(rows, cols)
Reshape(a, rows, cols) ==
    LET flat == Ravel(a)
    IN  IF Len(flat) # rows * cols THEN Raise("ValueError")
        ELSE NdArray([p \in 1..rows |-> [j \in 1..cols |-> flat[(p - 1) * cols + j]]])

\* variant of generate_samples_efficient that repeats each hit bin once
generate_samples_efficient_once_per_bin(res, bins, nr) ==
    LET n_shots    == SumSeq(res)
        bin_coords == [i \in 1..Len(bins) |-> Centre(bins[i])]
        expanded   == Reshape(Repeat(bin_coords, [i \in 1..Len(res) |-> IF res[i] > 0 THEN 1 ELSE 0], 1),
                              Cardinality({i \in 1..Len(res) : res[i] > 0}), nr)
    IN  IF Len(bins) = 0 THEN Raise("ZeroDivisionError")
        ELSE IF expanded.tag = "raise" THEN expanded
        ELSE NdArray(AsTypeFloat32(expanded.val))

\* generate_samples_efficient(results, bin_data, n_registers, noisy=False)
generate_samples_efficient(res, bins, nr) ==
    LET n_shots    == SumSeq(res)
        noise      == Zeros(n_shots, nr)
        bin_coords == [i \in 1..Len(bins) |-> Centre(bins[i])]
        expanded   == Reshape(Repeat(bin_coords, res, 1), n_shots, nr)
    IN  IF Len(bins) = 0 THEN Raise("ZeroDivisionError")   \* width = 1 / 0 ** (1 / nr)
        ELSE IF expanded.tag = "raise" THEN expanded
        ELSE NdArray(AsTypeFloat32(
                [p \in 1..n_shots |-> RowAdd(expanded.val[p], noise[p])]))

\* bin tables a caller may pass that compute_discretization did not build: the
\* empty table, and a table with a centre that float32 cannot hold
WideCentre == <<Pow(2, F32Significand + 1) - 1, F32Significand + 1>>

GivenBinData(nr) ==
    { <<>>,
      << <<Float(0)>> \o [j \in 1..nr |-> WideCentre],
         <<Float(1)>> \o [j \in 1..nr |-> Half] >> }

\* a specification that does not use a group of variables leaves it at these values
PostUnused ==
    /\ heap = <<>>
    /\ subclass = None
    /\ rt_ret = None
    /\ post_ret = None
    /\ post_d = None
    /\ heap_before = <<>>

PulpUnused ==
    /\ problem = None
    /\ qp = None

IsingUnused ==
    /\ global_variables = [type |-> "int", val |-> 0]
    /\ pc = "idle"
    /\ t_matrix = <<>>
    /\ j_matrix = <<>>
    /\ n_terms = 0
    /\ addressed = <<>>
    /\ solution = None
    /\ converted = FALSE
    /\ ret = None

QMLUnused ==
    /\ n_qubits = 0
    /\ n_registers = 0
    /\ disc = None
    /\ disc_eff = None
    /\ bin_data = None
    /\ results = <<>>
    /\ samples = None
    /\ samples_eff = None

\* ---------------------------------------------------------- actions (QML)
InitQML ==
    /\ n_qubits \in 1..MaxQubits
    /\ n_registers \in 1..MaxRegisters
    /\ disc = None
    /\ disc_eff = None
    /\ bin_data = None
    /\ results = <<>>
    /\ samples = None
    /\ samples_eff = None
    /\ PostUnused
    /\ PulpUnused
    /\ IsingUnused

ComputeDiscretization ==
    /\ disc' = NdArray(compute_discretization(n_qubits, n_registers))
    /\ UNCHANGED <<n_qubits, n_registers, disc_eff, bin_data, results, samples, samples_eff>>
    /\ UNCHANGED <<postVars, pulpVars, isingVars>>

ComputeDiscretizationEfficient ==
    /\ disc_eff' = NdArray(compute_discretization_efficient(n_qubits, n_registers))
    /\ UNCHANGED <<n_qubits, n_registers, disc, bin_data, results, samples, samples_eff>>
    /\ UNCHANGED <<postVars, pulpVars, isingVars>>

\* the caller hands a bin table to generate_samples; the histogram starts empty
PassBinData ==
    \E b \in {t.val : t \in {disc, disc_eff} \ {None}} \cup GivenBinData(n_registers) :
        /\ bin_data' = NdArray(b)
        /\ results' = [i \in 1..Len(b) |-> 0]
        /\ samples' = None
        /\ samples_eff' = None
        /\ UNCHANGED <<n_qubits, n_registers, disc, disc_eff>>
        /\ UNCHANGED <<postVars, pulpVars, isingVars>>

\* one more shot is counted in bin idx of the histogram
Measure ==
    /\ bin_data # None
    /\ SumSeq(results) < MaxShots
    /\ \E idx \in 1..Len(results) :
        results' = [results EXCEPT ![idx] = @ + 1]
    /\ samples' = None
    /\ samples_eff' = None
    /\ UNCHANGED <<n_qubits, n_registers, disc, disc_eff, bin_data>>
    /\ UNCHANGED <<postVars, pulpVars, isingVars>>

GenerateSamples ==
    /\ bin_data # None
    /\ samples' = generate_samples(results, bin_data.val, n_registers)
    /\ UNCHANGED <<n_qubits, n_registers, disc, disc_eff, bin_data, results, samples_eff>>
    /\ UNCHANGED <<postVars, pulpVars, isingVars>>

GenerateSamplesEfficient ==
    /\ bin_data # None
    /\ samples_eff' = generate_samples_efficient(results, bin_data.val, n_registers)
    /\ UNCHANGED <<n_qubits, n_registers, disc, disc_eff, bin_data, results, samples>>
    /\ UNCHANGED <<postVars, pulpVars, isingVars>>

NextQML ==
    \/ ComputeDiscretization
    \/ ComputeDiscretizationEfficient
    \/ PassBinData
    \/ Measure
    \/ GenerateSamples
    \/ GenerateSamplesEfficient

SpecQML == InitQML /\ [][NextQML]_vars

\* ------------------------------------------------------- properties (QML)
\* digit j (1 = most significant) of k written in base n with r digits
Digit(k, n, r, j) == (k \div Pow(n, r - j)) % n

\* the dyadic rational v equals a / b
EqualsFraction(v, a, b) == v[1] * b = a * Pow(2, v[2])

StrictlyInsideUnitInterval(v) == 0 < v[1] /\ v[1] < Pow(2, v[2])

\* C1: compute_discretization(n_qubits, n_registered) returns n^n_registered rows
\* of n_registered + 1 columns, n = 2^(n_qubits // n_registered); row k holds k in
\* column 0 and (c_j + 0.5) / n in column j, c the base-n digits of k, most
\* significant first; the centres are pairwise distinct and strictly inside (0, 1).
C1_DiscretizationTable ==
    disc # None =>
        LET n == Pow(2, n_qubits \div n_registers)
            T == disc.val
        IN  /\ Len(T) = Pow(n, n_registers)
            /\ \A k \in 1..Len(T) :
                /\ Len(T[k]) = n_registers + 1
                /\ T[k][1] = <<k - 1, 0>>
                /\ \A j \in 1..n_registers :
                    /\ EqualsFraction(T[k][j + 1],
                                      2 * Digit(k - 1, n, n_registers, j) + 1, 2 * n)
                    /\ StrictlyInsideUnitInterval(T[k][j + 1])
            /\ \A k1, k2 \in 1..Len(T) : k1 # k2 => Centre(T[k1]) # Centre(T[k2])

C1_Witness ==
    /\ disc # None
    /\ n_registers >= 2
    /\ n_qubits \div n_registers >= 1
    /\ Len(disc.val) >= 4

\* C8: compute_discretization_efficient returns the same table as
\* compute_discretization, row for row and column for column.
C8_EfficientDiscretizationAgrees ==
    (disc # None /\ disc_eff # None) => disc_eff = disc

C8_Witness ==
    /\ disc # None
    /\ disc_eff # None
    /\ n_registers >= 2
    /\ Len(disc_eff.val) >= 4

\* the bin (1-based) that sample row p (1-based) comes from: the first bin whose
\* cumulative count reaches p
RECURSIVE BinOf(_, _, _)
BinOf(res, p, i) == IF p <= res[i] THEN i ELSE BinOf(res, p - res[i], i + 1)

CentresInBinOrder(res, bins) ==
    [p \in 1..SumSeq(res) |-> Centre(bins[BinOf(res, p, 1)])]

RoundedCentresInBinOrder(res, bins) ==
    [p \in 1..SumSeq(res) |->
        LET c == Centre(bins[BinOf(res, p, 1)])
        IN  [j \in 1..Len(c) |-> AsFloat32(c[j])]]

SampleShape(r) ==
    /\ r.tag = "ndarray"
    /\ Len(r.val) = SumSeq(results)
    /\ \A p \in 1..Len(r.val) : Len(r.val[p]) = n_registers

\* C2 as stated: with noisy=False both generate_samples and
\* generate_samples_efficient return sum(results) rows of n_registers columns,
\* the centre of bin 0 repeated results[0] times, then that of bin 1, and so on,
\* and the two return the same array.
C2_SamplesAreBinCentres ==
    /\ samples # None =>
        /\ SampleShape(samples)
        /\ samples.val = CentresInBinOrder(results, bin_data.val)
    /\ samples_eff # None =>
        /\ SampleShape(samples_eff)
        /\ samples_eff.val = CentresInBinOrder(results, bin_data.val)
    /\ (samples # None /\ samples_eff # None) => samples = samples_eff

\* C2 amended: for a bin table with at least one row, the rows returned are the
\* bin centres cast to float32, in ascending bin index, bin i repeated results[i]
\* times; both functions return the same array; an empty bin table makes both
\* raise ZeroDivisionError.
C2_SamplesAreFloat32BinCentres ==
    /\ samples # None =>
        IF Len(bin_data.val) = 0 THEN samples = Raise("ZeroDivisionError")
        ELSE /\ SampleShape(samples)
             /\ samples.val = RoundedCentresInBinOrder(results, bin_data.val)
    /\ samples_eff # None =>
        IF Len(bin_data.val) = 0 THEN samples_eff = Raise("ZeroDivisionError")
        ELSE /\ SampleShape(samples_eff)
             /\ samples_eff.val = RoundedCentresInBinOrder(results, bin_data.val)
    /\ (samples # None /\ samples_eff # None) => samples = samples_eff

\* both functions have run on a histogram with an empty bin followed by a bin
\* hit more than once
C2_Witness ==
    /\ samples # None
    /\ samples_eff # None
    /\ samples.tag = "ndarray"
    /\ \E i, j \in 1..Len(results) : i < j /\ results[i] = 0 /\ results[j] >= 2

\* ------------------------------------- Transformation: postprocess
\* Python objects are held in a heap; a dict is a function from its keys to values.
\* Each call drops the value the call before it returned, so that the one
\* reference for a new dict, NewRef, is free again when a call allocates.
NoneRef == "None"

InputRef == "input_data"

NewRef == "new dict"

Keys == {"inference", "Transformation", "samples"}

Values == {"True", "v"}

Dicts == UNION {[K -> Values] : K \in SUBSET Keys}

\* d[k] = v
DictSet(d, k, v) == [x \in DOMAIN d \cup {k} |-> IF x = k THEN v ELSE d[x]]

\* the subclasses: one that inherits reverse_transform, one whose reverse_transform
\* returns its argument, and those whose reverse_transform returns a new dict d
Subclasses ==
    {[kind |-> "inherits"], [kind |-> "returns_argument"]}
        \cup {[kind |-> "returns_new", d |-> x] : x \in Dicts}

\* Transformation.reverse_transform: a bare return
reverse_transform(sol) == NoneRef

\* self.reverse_transform(solution): the reference returned and the heap after
call_reverse_transform(self, sol, h) ==
    CASE self.kind = "inherits" ->
            [ref |-> reverse_transform(sol), heap |-> h]
      [] self.kind = "returns_argument" ->
            [ref |-> sol, heap |-> h]
      [] self.kind = "returns_new" ->
            [ref |-> NewRef,
             heap |-> [r \in DOMAIN h \cup {NewRef} |-> IF r = NewRef THEN self.d ELSE h[r]]]

\* variant of postprocess that sets "inference" whether or not input_data has it
postprocess_overwrites_inference(self, input_data, h) ==
    LET r      == call_reverse_transform(self, input_data, h)
        output == r.ref
        h1     == [r.heap EXCEPT ![output] = DictSet(@, "Transformation", "True")]
        h2     == [h1 EXCEPT ![output] =
                      DictSet(@, "inference",
                              IF "inference" \in DOMAIN h1[input_data]
                              THEN h1[input_data]["inference"] ELSE "None")]
    IN  IF output = NoneRef
        THEN [ret |-> Raise("TypeError"), heap |-> r.heap, d |-> None]
        ELSE [ret |-> [tag |-> "tuple", ref |-> output],
              heap |-> h2,
              d |-> [ref |-> output, dict |-> r.heap[output]]]

\* Transformation.postprocess(input_data, config): the value returned (the time
\* measured is left out), the heap after, and what reverse_transform returned
postprocess(self, input_data, h) ==
    LET r      == call_reverse_transform(self, input_data, h)
        output == r.ref
        h1     == [r.heap EXCEPT ![output] = DictSet(@, "Transformation", "True")]
        h2     == IF "inference" \in DOMAIN h1[input_data]
                  THEN [h1 EXCEPT ![output] =
                           DictSet(@, "inference", h1[input_data]["inference"])]
                  ELSE h1
    IN  IF output = NoneRef
        THEN [ret |-> Raise("TypeError"), heap |-> r.heap, d |-> None]
        ELSE [ret |-> [tag |-> "tuple", ref |-> output],
              heap |-> h2,
              d |-> [ref |-> output, dict |-> r.heap[output]]]

InitPost ==
    /\ heap \in [{InputRef} -> Dicts]
    /\ subclass \in Subclasses
    /\ rt_ret = None
    /\ post_ret = None
    /\ post_d = None
    /\ heap_before = heap
    /\ QMLUnused
    /\ PulpUnused
    /\ IsingUnused

ReverseTransform ==
    LET r == call_reverse_transform(subclass, InputRef, heap)
    IN  /\ rt_ret' = [tag |-> "value", ref |-> r.ref]
        /\ heap' = r.heap
        /\ post_ret' = None
        /\ post_d' = None
        /\ UNCHANGED <<subclass, heap_before>>
        /\ UNCHANGED <<qmlVars, pulpVars, isingVars>>

Postprocess ==
    LET r == postprocess(subclass, InputRef, heap)
    IN  /\ post_ret' = r.ret
        /\ heap' = r.heap
        /\ post_d' = r.d
        /\ heap_before' = heap
        /\ rt_ret' = None
        /\ UNCHANGED subclass
        /\ UNCHANGED <<qmlVars, pulpVars, isingVars>>

NextPost ==
    \/ ReverseTransform
    \/ Postprocess

SpecPost == InitPost /\ [][NextPost]_vars

\* ---------------------------------------------- properties (postprocess)
OtherKeys(d) == DOMAIN d \ {"Transformation", "inference"}

\* what postprocess returns first, against what reverse_transform gave (d) and
\* the input_data it was called with
PostprocessOutput(out, d, input) ==
    /\ post_ret.ref = post_d.ref
    /\ "Transformation" \in DOMAIN out /\ out["Transformation"] = "True"
    /\ IF "inference" \in DOMAIN input
       THEN "inference" \in DOMAIN out /\ out["inference"] = input["inference"]
       ELSE /\ "inference" \in DOMAIN out <=> "inference" \in DOMAIN d
            /\ "inference" \in DOMAIN out => out["inference"] = d["inference"]
    /\ OtherKeys(out) = OtherKeys(d)
    /\ \A k \in OtherKeys(d) : out[k] = d[k]

\* C3 as stated: postprocess returns d with "Transformation" set to True and
\* "inference" set to input_data["inference"] exactly when input_data has that key,
\* every other key of d is kept, and input_data is not modified.
C3_PostprocessLeavesInputAlone ==
    (post_ret # None /\ post_ret.tag = "tuple") =>
        /\ PostprocessOutput(heap[post_ret.ref], post_d.dict, heap_before[InputRef])
        /\ heap[InputRef] = heap_before[InputRef]

\* C3 amended: the same, but input_data is left unmodified only when d is another
\* object than input_data; when reverse_transform returns input_data itself,
\* input_data is d and gets "Transformation" set to True, nothing else changing.
C3_PostprocessOutput ==
    (post_ret # None /\ post_ret.tag = "tuple") =>
        /\ PostprocessOutput(heap[post_ret.ref], post_d.dict, heap_before[InputRef])
        /\ post_ret.ref # InputRef => heap[InputRef] = heap_before[InputRef]
        /\ post_ret.ref = InputRef =>
               heap[InputRef] = DictSet(heap_before[InputRef], "Transformation", "True")

\* postprocess has returned a new dict that had its own keys, for an input_data
\* that has the key "inference"
C3_Witness ==
    /\ post_ret # None
    /\ post_ret.tag = "tuple"
    /\ post_ret.ref = NewRef
    /\ "inference" \in DOMAIN heap_before[InputRef]
    /\ "samples" \in DOMAIN post_d.dict
    /\ "inference" \in DOMAIN post_d.dict
    /\ post_d.dict["inference"] # heap_before[InputRef]["inference"]

\* C4: reverse_transform, when a subclass does not override it, returns the
\* solution it was given.
C4_DefaultReverseTransformReturnsSolution ==
    (rt_ret # None /\ subclass.kind = "inherits") => rt_ret.ref = InputRef

\* ---------------------------------------------- Ising.map_pulp_to_qiskit
\* {arg["name"]: arg["value"] for arg in args}, filled in list order
RECURSIVE DictFromArgs(_, _)
DictFromArgs(args, acc) ==
    IF Len(args) = 0 THEN acc
    ELSE DictFromArgs(Tail(args), DictSet(acc, Head(args).name, Head(args).value))

\* the QuadraticProgram calls for one entry of problem["variables"]
VariableOf(variable_dict) ==
    IF variable_dict.cat = "Integer"
    THEN IF variable_dict.lowBound = 0 /\ variable_dict.upBound = 1
         THEN << [call |-> "binary_var", name |-> variable_dict.name] >>
         ELSE << [call |-> "integer_var", name |-> variable_dict.name,
                  lowerbound |-> variable_dict.lowBound,
                  upperbound |-> variable_dict.upBound] >>
    ELSE <<>>

RECURSIVE VariablesOf(_)
VariablesOf(variables) ==
    IF Len(variables) = 0 THEN <<>>
    ELSE VariableOf(Head(variables)) \o VariablesOf(Tail(variables))

\* variant of ConstSense with "LE" and "GE" exchanged
ConstSense_swapped(sense) ==
    IF sense = -1 THEN "GE" ELSE IF sense = 1 THEN "LE" ELSE "E"

\* const_sense for constraint["sense"]
ConstSense(sense) ==
    IF sense = -1 THEN "LE" ELSE IF sense = 1 THEN "GE" ELSE "E"

\* the qp.linear_constraint call for one entry of problem["constraints"]
ConstraintOf(constraint) ==
    [linear |-> DictFromArgs(constraint.coefficients, <<>>),
     sense  |-> ConstSense(constraint.sense),
     rhs    |-> (-1) * constraint.constant,
     name   |-> constraint.name]

\* Ising.map_pulp_to_qiskit(problem): the QuadraticProgram, as the calls made on it
map_pulp_to_qiskit(prob) ==
    [variables |-> VariablesOf(prob.variables),
     objective |-> [sense  |-> IF prob.parameters.sense = -1 THEN "maximize" ELSE "minimize",
                    linear |-> DictFromArgs(prob.objective.coefficients, <<>>)],
     linear_constraints |->
        [i \in 1..Len(prob.constraints) |-> ConstraintOf(prob.constraints[i])]]

Arg(n, v) == [name |-> n, value |-> v]

ProblemVariables ==
    << [name |-> "x_0", cat |-> "Integer", lowBound |-> 0, upBound |-> 1],
       [name |-> "y", cat |-> "Integer", lowBound |-> 0, upBound |-> 5],
       [name |-> "z", cat |-> "Continuous", lowBound |-> 0, upBound |-> 1] >>

Coefficients ==
    { <<Arg("x_0", 1), Arg("y", -2)>>,
      <<Arg("x_0", 1), Arg("y", 4), Arg("x_0", 3)>> }

Constraints ==
    [name : {"c1", "c2"}, sense : {-1, 0, 1, 2}, constant : {-3, 2},
     coefficients : Coefficients]

InitPulp ==
    /\ problem \in [variables : {ProblemVariables},
                    objective : {[coefficients |-> <<Arg("x_0", 1), Arg("y", 2)>>]},
                    parameters : {[sense |-> -1], [sense |-> 1]},
                    constraints : {<<>>}]
    /\ qp = None
    /\ QMLUnused
    /\ PostUnused
    /\ IsingUnused

ExampleProblem ==
    [variables   |-> ProblemVariables,
     objective   |-> [coefficients |-> <<Arg("x_0", 1), Arg("y", 2)>>],
     parameters  |-> [sense |-> -1],
     constraints |-> << [name |-> "c1", sense |-> -1, constant |-> -3,
                         coefficients |-> <<Arg("x_0", 1), Arg("y", 1)>>] >>]

\* the caller (the ACL application) adds one more constraint to the problem dict
AddConstraint ==
    /\ Len(problem.constraints) < MaxConstraints
    /\ \E c \in Constraints :
        problem' = [problem EXCEPT !.constraints = Append(@, c)]
    /\ qp' = None
    /\ UNCHANGED <<qmlVars, postVars, isingVars>>

MapPulpToQiskit ==
    /\ qp' = map_pulp_to_qiskit(problem)
    /\ UNCHANGED problem
    /\ UNCHANGED <<qmlVars, postVars, isingVars>>

NextPulp ==
    \/ AddConstraint
    \/ MapPulpToQiskit

SpecPulp == InitPulp /\ [][NextPulp]_vars

\* ------------------------------------- properties (map_pulp_to_qiskit)
ArgNames(args) == {args[i].name : i \in 1..Len(args)}

\* the value the list args gives the name n: that of its last entry for n
LastValue(args, n) ==
    LET last == CHOOSE i \in 1..Len(args) :
                    /\ args[i].name = n
                    /\ \A j \in (i + 1)..Len(args) : args[j].name # n
    IN  args[last].value

\* C5: map_pulp_to_qiskit adds exactly one linear constraint per entry of
\* problem["constraints"], in the same order, with the same name and the same
\* variable-to-coefficient map, with sense "LE" for -1, "GE" for 1 and "E" for
\* any other value, and with the negated "constant" as right-hand side.
C5_ConstraintsMapped ==
    qp # None =>
        /\ Len(qp.linear_constraints) = Len(problem.constraints)
        /\ \A i \in 1..Len(problem.constraints) :
            LET c == problem.constraints[i]
                q == qp.linear_constraints[i]
            IN  /\ q.name = c.name
                /\ DOMAIN q.linear = ArgNames(c.coefficients)
                /\ \A n \in DOMAIN q.linear : q.linear[n] = LastValue(c.coefficients, n)
                /\ c.sense = -1 => q.sense = "LE"
                /\ c.sense = 1 => q.sense = "GE"
                /\ c.sense \notin {-1, 1} => q.sense = "E"
                /\ q.rhs + c.constant = 0

C5_Witness ==
    /\ qp # None
    /\ Len(qp.linear_constraints) = 2
    /\ problem.constraints[1].sense = -1
    /\ problem.constraints[2].sense = 2
    /\ problem.constraints[1].name = "c2"
    /\ Len(problem.constraints[2].coefficients) = 3

\* ------------------------------------------------ Ising.map / reverse_map
\* variable names are sequences of characters, for the test "x" in name
Name_x_0 == <<"x", "_", "0">>

Name_x_1 == <<"x", "_", "1">>

Name_slack == <<"c", "1", "@", "s">>

Name_y == <<"y", "@", "0">>

Name_mx == <<"m", "x">>

\* orders in which the QUBO may list its variables
VariableOrders ==
    { <<Name_x_0, Name_y, Name_x_1, Name_mx, Name_slack>>,
      <<Name_slack, Name_x_1, Name_mx, Name_x_0, Name_y>>,
      <<Name_mx, Name_x_0, Name_slack, Name_y, Name_x_1>> }

\* the variable lists qubo.variables may hold
VariableLists == {SubSeq(o, 1, q) : o \in VariableOrders, q \in 1..MaxIsingQubits}

\* coefficients of the terms of the Ising operator
Coeffs == {-1, 2}

\* list(locate(pauli_str_list, lambda a: a == 'Z')), positions counted from 0
RECURSIVE Locate(_, _)
Locate(pauli_str_list, i) ==
    IF i > Len(pauli_str_list) THEN <<>>
    ELSE (IF pauli_str_list[i] = "Z" THEN <<i - 1>> ELSE <<>>)
             \o Locate(pauli_str_list, i + 1)

\* variant of SetJ that writes the transposed entry
SetJ_transposed(j, index_pos_list, coeff) ==
    [j EXCEPT ![index_pos_list[2]][index_pos_list[1]] = coeff]

\* j_matrix[index_pos_list[0]][index_pos_list[1]] = coeff
SetJ(j, index_pos_list, coeff) ==
    [j EXCEPT ![index_pos_list[1]][index_pos_list[2]] = coeff]

\* one pass of the body of the loop of map, for the term (pauli_str, coeff)
MapTerm(t, j, pauli_str, coeff) ==
    LET index_pos_list == Locate(pauli_str, 1)
    IN  IF Len(index_pos_list) = 1
        THEN [t |-> [t EXCEPT ![index_pos_list[1]] = coeff], J |-> j]
        ELSE IF Len(index_pos_list) = 2
        THEN [t |-> t, J |-> SetJ(j, index_pos_list, coeff)]
        ELSE [t |-> t, J |-> j]

\* Python values of different types, for ==
PyDict(d) == [type |-> "dict", val |-> d]

PyStr(x) == [type |-> "str", val |-> x]

PyList(l) == [type |-> "list", val |-> l]

PyInt(i) == [type |-> "int", val |-> i]

\* a == b for a dict, a str or a list of numbers: values of different types differ
PyEq(a, b) == a.type = b.type /\ a.val = b.val

\* Ising._convert_ising_to_qubo(solution): np.nditer refuses the object array
\* that np.array makes of a dict
convert_ising_to_qubo(sol) ==
    IF sol.type = "list"
    THEN PyList([i \in 1..Len(sol.val) |-> IF sol.val[i] = -1 THEN 0 ELSE sol.val[i]])
    ELSE [type |-> "raise", val |-> Raise("TypeError")]

\* variant of IsAssignment that asks for a name starting with "x"
IsAssignment_prefix(name) == Len(name) > 0 /\ name[1] = "x"

\* "x" in name
IsAssignment(name) == \E i \in 1..Len(name) : name[i] = "x"

\* the loop of reverse_map over the bits of the solution still to visit
RECURSIVE ReverseMapLoop(_, _, _, _)
ReverseMapLoop(gv, sol, bits, acc) ==
    IF bits = {} \/ acc.tag = "raise" THEN acc
    ELSE LET bit  == CHOOSE b \in bits : \A c \in bits : b <= c
             rest == bits \ {bit}
         IN  IF sol[bit] > 0
             THEN IF gv.type = "int" THEN Raise("TypeError")   \* 0[bit]
                  ELSE IF IsAssignment(gv.val[bit + 1])
                  THEN ReverseMapLoop(gv, sol, rest,
                          [acc EXCEPT !.variables = DictSet(@, gv.val[bit + 1], sol[bit]),
                                      !.status = "Optimal",
                                      !.obj_value = @ + sol[bit]])
                  ELSE ReverseMapLoop(gv, sol, rest, acc)
             ELSE ReverseMapLoop(gv, sol, rest, acc)

\* Ising.reverse_map(solution) for a dict solution: the value returned (the time
\* measured is left out) and whether _convert_ising_to_qubo was called
reverse_map(gv, sol) ==
    LET is_ising == PyEq(PyDict(sol), PyStr("-1"))     \* np.any(solution == "-1")
        sol1     == IF is_ising THEN convert_ising_to_qubo(PyDict(sol)) ELSE PyDict(sol)
        start    == [tag |-> "reverse_map", status |-> "[0]", variables |-> <<>>,
                     obj_value |-> 0]
    IN  [converted |-> is_ising,
         ret |-> IF sol1.type = "raise" THEN sol1.val
                 ELSE ReverseMapLoop(gv, sol1.val, DOMAIN sol1.val, start)]

NoneAddressed == [t |-> <<>>, J |-> <<>>]

InitIsing ==
    /\ global_variables = PyInt(0)                     \* self.global_variables = 0
    /\ pc = "idle"
    /\ t_matrix = <<>>
    /\ j_matrix = <<>>
    /\ n_terms = 0
    /\ addressed = NoneAddressed
    /\ solution = None
    /\ converted = FALSE
    /\ ret = None
    /\ problem = ExampleProblem
    /\ qp = None
    /\ QMLUnused
    /\ PostUnused

\* map, up to the for loop: the QuadraticProgram is built and converted, the
\* names of the QUBO's variables are stored, t and J are zeroed
MapStart ==
    /\ pc = "idle"
    /\ qp' = map_pulp_to_qiskit(problem)
    /\ \E variables \in VariableLists :
        /\ global_variables' = PyList(variables)
        /\ t_matrix' = [p \in 0..(Len(variables) - 1) |-> 0]
        /\ j_matrix' = [p \in 0..(Len(variables) - 1) |->
                           [r \in 0..(Len(variables) - 1) |-> 0]]
    /\ pc' = "loop"
    /\ n_terms' = 0
    /\ addressed' = NoneAddressed
    /\ solution' = None
    /\ converted' = FALSE
    /\ ret' = None
    /\ UNCHANGED problem
    /\ UNCHANGED <<qmlVars, postVars>>

\* one pass of the for loop of map, over the next term of qubitOp
MapLoop ==
    /\ pc = "loop"
    /\ n_terms < MaxTerms
    /\ \E pauli_str \in [1..Len(global_variables.val) -> {"I", "Z"}], coeff \in Coeffs :
        LET r  == MapTerm(t_matrix, j_matrix, pauli_str, coeff)
            zs == {p \in 0..(Len(pauli_str) - 1) : pauli_str[p + 1] = "Z"}
        IN  /\ t_matrix' = r.t
            /\ j_matrix' = r.J
            /\ addressed' =
                 IF Cardinality(zs) = 1
                 THEN [addressed EXCEPT !.t = DictSet(@, CHOOSE p \in zs : TRUE, coeff)]
                 ELSE IF Cardinality(zs) = 2
                 THEN [addressed EXCEPT !.J =
                          DictSet(@, <<CHOOSE p \in zs : \A r2 \in zs : p <= r2,
                                       CHOOSE p \in zs : \A r2 \in zs : p >= r2>>, coeff)]
                 ELSE addressed
    /\ n_terms' = n_terms + 1
    /\ UNCHANGED <<global_variables, pc, solution, converted, ret, problem, qp>>
    /\ UNCHANGED <<qmlVars, postVars>>

\* the loop of map is over: map returns {"J": j_matrix, "t": t_matrix}
MapReturn ==
    /\ pc = "loop"
    /\ ret' = [tag |-> "map", J |-> j_matrix, t |-> t_matrix]
    /\ pc' = "idle"
    /\ t_matrix' = <<>>
    /\ j_matrix' = <<>>
    /\ UNCHANGED <<global_variables, n_terms, addressed, solution, converted, problem, qp>>
    /\ UNCHANGED <<qmlVars, postVars>>

SolutionBits ==
    IF global_variables.type = "int" THEN {0} ELSE 0..(Len(global_variables.val) - 1)

SolutionValues == {-1, 0, 1, 2}

ReverseMap ==
    /\ pc = "idle"
    /\ \E bits \in SUBSET SolutionBits : \E sol \in [bits -> SolutionValues] :
        LET r == reverse_map(global_variables, sol)
        IN  /\ solution' = sol
            /\ converted' = r.converted
            /\ ret' = r.ret
    /\ UNCHANGED <<global_variables, pc, t_matrix, j_matrix, n_terms, addressed,
                   problem, qp>>
    /\ UNCHANGED <<qmlVars, postVars>>

NextIsing ==
    \/ MapStart
    \/ MapLoop
    \/ MapReturn

\* map and the matrices it builds, the loop taken one term at a time
SpecIsing == InitIsing /\ [][NextIsing]_vars

\* the body of the loop of map over all the terms of qubitOp
RECURSIVE MapTerms(_, _, _)
MapTerms(t, j, qubitOp) ==
    IF Len(qubitOp) = 0 THEN [t |-> t, J |-> j]
    ELSE LET r == MapTerm(t, j, Head(qubitOp).pauli_str, Head(qubitOp).coeff)
         IN  MapTerms(r.t, r.J, Tail(qubitOp))

\* the Ising operators map is given here: the empty one and a single term
\* with a 'Z' on every qubit
Operators(q) == {<<>>, << [pauli_str |-> [i \in 1..q |-> "Z"], coeff |-> 2] >>}

\* a whole call of map
Map ==
    /\ qp' = map_pulp_to_qiskit(problem)
    /\ \E variables \in VariableLists : \E qubitOp \in Operators(Len(variables)) :
        LET q == Len(variables)
            r == MapTerms([p \in 0..(q - 1) |-> 0],
                          [p \in 0..(q - 1) |-> [r2 \in 0..(q - 1) |-> 0]], qubitOp)
        IN  /\ global_variables' = PyList(variables)
            /\ ret' = [tag |-> "map", J |-> r.J, t |-> r.t]
    /\ solution' = None
    /\ converted' = FALSE
    /\ UNCHANGED <<pc, t_matrix, j_matrix, n_terms, addressed, problem>>
    /\ UNCHANGED <<qmlVars, postVars>>

NextReverseMap ==
    \/ Map
    \/ ReverseMap

\* reverse_map after whole calls of map
SpecReverseMap == InitIsing /\ [][NextReverseMap]_vars

\* ------------------------------------------ properties (map, reverse_map)
RECURSIVE SumOver(_, _)
SumOver(f, S) ==
    IF S = {} THEN 0
    ELSE LET b == CHOOSE x \in S : TRUE IN f[b] + SumOver(f, S \ {b})

\* the bits of the solution that reverse_map is to report: those with a value
\* above 0 whose variable name contains "x"
AssignedBits ==
    {b \in DOMAIN solution :
        solution[b] > 0 /\ \E i \in 1..Len(global_variables.val[b + 1]) :
                               global_variables.val[b + 1][i] = "x"}

\* C6: reverse_map returns "variables" holding exactly the entries
\* global_variables[bit] -> solution[bit] for the bits with solution[bit] > 0 and
\* a name containing "x", "obj_value" their sum, and "status" 'Optimal' when
\* there is such a bit and [0] otherwise.
C6_ReverseMapResult ==
    (ret.tag \in {"reverse_map", "raise"} /\ global_variables.type = "list") =>
        /\ ret.tag = "reverse_map"
        /\ DOMAIN ret.variables = {global_variables.val[b + 1] : b \in AssignedBits}
        /\ \A b \in AssignedBits : ret.variables[global_variables.val[b + 1]] = solution[b]
        /\ ret.obj_value = SumOver(solution, AssignedBits)
        /\ ret.status = IF AssignedBits # {} THEN "Optimal" ELSE "[0]"

\* reverse_map has returned for a solution that assigns two "x" variables, one
\* of them with a value above 1, and that gives a variable without "x" a value
\* above 0
C6_Witness ==
    /\ ret.tag = "reverse_map"
    /\ global_variables.type = "list"
    /\ Cardinality(AssignedBits) >= 2
    /\ \E b \in AssignedBits : solution[b] = 2
    /\ \E b \in DOMAIN solution \ AssignedBits : solution[b] > 0
    /\ \E b \in AssignedBits : global_variables.val[b + 1][1] # "x"

\* C7: when the solution passed to reverse_map holds an entry equal to -1,
\* reverse_map converts it with _convert_ising_to_qubo before it selects the
\* assignments; a solution without a -1 entry is not converted.
C7_IsingSolutionIsConverted ==
    (ret.tag \in {"reverse_map", "raise"} /\ global_variables.type = "list") =>
        (converted <=> \E b \in DOMAIN solution : solution[b] = -1)

\* the matrices of map: its locals inside the loop, the returned ones after it
CurrentJ == IF pc = "loop" THEN j_matrix ELSE ret.J

CurrentT == IF pc = "loop" THEN t_matrix ELSE ret.t

\* C9: t has q entries and J is q x q, zero at first; a term with one 'Z' at p
\* sets t[p] to its coefficient, a term with two 'Z' at p < r sets J[p][r], any
\* other term changes nothing.  So J is strictly upper triangular and every
\* entry of t and J holds the coefficient of the last term that addressed it,
\* and 0 if no term did.
C9_CouplingsFromTerms ==
    (pc = "loop" \/ ret.tag = "map") =>
        LET q == Len(global_variables.val)
            Q == 0..(q - 1)
        IN  /\ DOMAIN CurrentT = Q
            /\ DOMAIN CurrentJ = Q
            /\ \A i \in Q : DOMAIN CurrentJ[i] = Q
            /\ \A i, j \in Q : i >= j => CurrentJ[i][j] = 0
            /\ \A p \in Q :
                CurrentT[p] = IF p \in DOMAIN addressed.t THEN addressed.t[p] ELSE 0
            /\ \A p, r \in Q :
                CurrentJ[p][r] =
                    IF <<p, r>> \in DOMAIN addressed.J THEN addressed.J[<<p, r>>] ELSE 0

\* map has returned after terms with one, two and three 'Z', one entry having
\* been addressed by two terms
C9_Witness ==
    /\ ret.tag = "map"
    /\ n_terms = MaxTerms
    /\ Len(global_variables.val) >= 3
    /\ DOMAIN addressed.t # {}
    /\ \E e \in DOMAIN addressed.J : e[2] > e[1] + 1
    /\ Cardinality(DOMAIN addressed.t) + Cardinality(DOMAIN addressed.J) < n_terms

====
